---- MODULE Spec2Model ----
(***************************************************************************)
(* Thumbnail disk cache of swayimg (src/src/thumbnail.c): cache-root       *)
(* resolution, thumbnail geometry, save and load of cache entries.         *)
(*                                                                         *)
(* Conventions                                                             *)
(*  - a C string is a sequence of one-character strings;                   *)
(*  - a float is <<m, e>> with 2^23 <= m < 2^24, value m * 2^e (<<0,0>> is *)
(*    zero); the operators below round as IEEE-754 binary32 does;          *)
(*  - a packed pixel (argb_t) is <<a, r, g, b>>, one byte each;            *)
(*  - a file is a sequence of tokens <<kind, x, y, z>>: one token per      *)
(*    header word, per field of struct thumbnail_params and per 3-byte     *)
(*    pixel record.                                                        *)
(***************************************************************************)
EXTENDS Integers, Sequences, FiniteSets, TLC

(***************************************************************************)
(* Bounds of the model                                                     *)
(***************************************************************************)
\* the clock runs from tick 0 to MaxTime
MaxTime == 2
\* clock ticks per second (st_ctime counts whole seconds)
TicksPerSec == 2
\* tokens moved by one read() or write() of a stdio stream (its buffer size)
ChunkLen == 8
\* the longest side of a pixmap the allocator can grant
MaxAlloc == 8
\* sides of the source images and target sizes of the geometry checks
MaxDim == 4
MaxSize == 7

(***************************************************************************)
(* Program constants                                                       *)
(***************************************************************************)
PATH_MAX == 4096
\* float: bits of the significand
FLT_MANT_DIG == 24

(***************************************************************************)
(* float arithmetic, as the expressions of thumbnail_params use it         *)
(***************************************************************************)
Pow2(n) == 2 ^ n

FZero == <<0, 0>>

BitLen(n) == CHOOSE k \in 1..31 : Pow2(k - 1) <= n /\ (k = 31 \/ n < Pow2(k))

\* n * 2^e (0 < n < 2^31) rounded to FLT_MANT_DIG significant bits, to nearest,
\* ties to even; sticky: nonzero bits below n were dropped already.
FRound(n, e, sticky) ==
    LET len == BitLen(n)
    IN  IF len <= FLT_MANT_DIG
        THEN <<n * Pow2(FLT_MANT_DIG - len), e - (FLT_MANT_DIG - len)>>
        ELSE LET s    == len - FLT_MANT_DIG
                 q    == n \div Pow2(s)
                 rem  == n % Pow2(s)
                 half == Pow2(s - 1)
                 up   == rem > half \/ (rem = half /\ (sticky \/ q % 2 = 1))
                 m    == IF up THEN q + 1 ELSE q
             IN  IF m = Pow2(FLT_MANT_DIG)
                 THEN <<Pow2(FLT_MANT_DIG - 1), e + s + 1>>
                 ELSE <<m, e + s>>

\* (float)n for a size_t n
IntToFloat(n) == IF n = 0 THEN FZero ELSE FRound(n, 0, FALSE)

\* a / b (b # 0).  The quotient of the significands lies in (1/2, 2); it is
\* developed to 1 + 28 bits, seven at a time, and rounded once.  `1.0 / x` is
\* a double division whose result is stored in a float: for float operands the
\* two roundings give the float nearest to the exact quotient (53 >= 2*24+2).
FDiv(a, b) ==
    IF a[1] = 0 THEN FZero
    ELSE LET den == b[1]
             q0 == a[1] \div den
             r0 == a[1] % den
             q1 == (r0 * 128) \div den
             r1 == (r0 * 128) % den
             q2 == (r1 * 128) \div den
             r2 == (r1 * 128) % den
             q3 == (r2 * 128) \div den
             r3 == (r2 * 128) % den
             q4 == (r3 * 128) \div den
             r4 == (r3 * 128) % den
             q  == (((q0 * 128 + q1) * 128 + q2) * 128 + q3) * 128 + q4
         IN  FRound(q, a[2] - b[2] - 28, r4 # 0)

FOne == <<Pow2(FLT_MANT_DIG - 1), 1 - FLT_MANT_DIG>>

FLess(a, b) ==
    IF a[1] = 0 \/ b[1] = 0 THEN a[1] < b[1]
    ELSE IF a[2] # b[2] THEN a[2] < b[2] ELSE a[1] < b[1]

\* the macros max and min
max(a, b) == IF FLess(b, a) THEN a ELSE b
min(a, b) == IF FLess(a, b) THEN a ELSE b

\* f * n for a size_t n < 2^7: n converts to float exactly, the product is
\* rounded once
FMulInt(f, n) == IF f[1] = 0 \/ n = 0 THEN FZero ELSE FRound(f[1] * n, f[2], FALSE)

\* (size_t)f: truncation toward zero
FToInt(f) ==
    IF f[1] = 0 THEN 0
    ELSE IF f[2] >= 0 THEN f[1] * Pow2(f[2])
    ELSE IF -f[2] >= FLT_MANT_DIG THEN 0
    ELSE f[1] \div Pow2(-f[2])

(***************************************************************************)
(* size_t arithmetic: 64 bits, as four 16-bit limbs, least significant     *)
(* first                                                                   *)
(***************************************************************************)
Limb == 65536

ToSizeT(n) == <<n % Limb, (n \div Limb) % Limb, 0, 0>>

\* a - b modulo 2^64
SizeSub(a, b) ==
    LET d1 == a[1] - b[1]
        c1 == IF d1 < 0 THEN 1 ELSE 0
        d2 == a[2] - b[2] - c1
        c2 == IF d2 < 0 THEN 1 ELSE 0
        d3 == a[3] - b[3] - c2
        c3 == IF d3 < 0 THEN 1 ELSE 0
        d4 == a[4] - b[4] - c3
    IN  <<d1 + c1 * Limb, d2 + c2 * Limb, d3 + c3 * Limb, (d4 + Limb) % Limb>>

\* the unsigned value read as ssize_t (two's complement), for |value| < 2^31
ToSSizeT(u) ==
    IF u[4] >= Limb \div 2
    THEN -((Limb - 1 - u[1]) + (Limb - 1 - u[2]) * Limb + 1)
    ELSE u[1] + u[2] * Limb

(***************************************************************************)
(* thumbnail_params                                                        *)
(***************************************************************************)
\* image: [width, height] of image->frames[0].pm, both in 1..127
thumbnail_params(image, size, fill, antialias) ==
    LET scale_width  == FDiv(FOne, FDiv(IntToFloat(image.width), IntToFloat(size)))
        scale_height == FDiv(FOne, FDiv(IntToFloat(image.height), IntToFloat(size)))
        scale == IF fill THEN max(scale_width, scale_height)
                         ELSE min(scale_width, scale_height)
        thumb_width  == FToInt(FMulInt(scale, image.width))
        thumb_height == FToInt(FMulInt(scale, image.height))
        offset_x == ToSSizeT(SizeSub(ToSizeT(size \div 2), ToSizeT(thumb_width \div 2)))
        offset_y == ToSSizeT(SizeSub(ToSizeT(size \div 2), ToSizeT(thumb_height \div 2)))
    IN  [thumb_width  |-> IF fill THEN size ELSE thumb_width,
         thumb_height |-> IF fill THEN size ELSE thumb_height,
         offset_x     |-> IF fill THEN offset_x ELSE 0,
         offset_y     |-> IF fill THEN offset_y ELSE 0,
         fill         |-> fill,
         antialias    |-> antialias,
         scale        |-> scale]

(***************************************************************************)
(* Strings, the environment and the inputs of the model                    *)
(***************************************************************************)
NULL == "NULL"

\* the literals of get_thumb_path
SWAYIMG == <<"/", "s", "w", "a", "y", "i", "m", "g">>
DOT_SWAYIMG == <<"/", ".", "s", "w", "a", "y", "i", "m", "g">>

EnvNames == {"XDG_CACHE_HOME", "HOME"}
\* the environments a process starts with; set = FALSE: the variable is unset
Unset == [set |-> FALSE, val |-> <<>>]
InitEnvs ==
    { [XDG_CACHE_HOME |-> [set |-> TRUE, val |-> <<"/", "c">>],
       HOME           |-> [set |-> TRUE, val |-> <<"/", "h">>]],
      [XDG_CACHE_HOME |-> Unset,
       HOME           |-> [set |-> TRUE, val |-> <<"/", "h">>]],
      [XDG_CACHE_HOME |-> Unset, HOME |-> Unset] }

\* source paths a caller passes: an image, and a path of PATH_MAX characters
SourceIds == {"a", "long"}
Source(id) ==
    IF id = "a" THEN <<"/", "a">>
    ELSE [k \in 1..PATH_MAX |-> IF k = 1 THEN "/" ELSE "x"]

\* the decoded image behind source "a": 4 x 1
Image == [width |-> 4, height |-> 1]

\* (size, fill, antialias) of the requests
DefaultTuple == <<2, FALSE, FALSE>>
ParamTuples ==
    { <<2, FALSE, FALSE>>, <<2, FALSE, TRUE>>,
      <<16777216, FALSE, FALSE>>, <<16777217, FALSE, FALSE>> }

\* the source images and the tuples of the geometry checks: every shape, small
\* sizes, and sizes around 2^24, where a float no longer holds every integer
\* thumbnail_params, evaluated once for each tuple
ParamsTable == [tu \in ParamTuples |-> thumbnail_params(Image, tu[1], tu[2], tu[3])]
ParamsOf(tu) == ParamsTable[tu]

\* the images and sizes of the geometry checks; float holds every integer up
\* to 2^24 = 16777216 and every fourth one just above
Images == [width : 1..MaxDim, height : 1..MaxDim]
BigSizes == {16777216, 16777217, 16777219}
Sizes == (1..MaxSize) \cup BigSizes

\* pixmaps
NoData == [st |-> "null", px |-> <<>>]
EmptyPixmap == [width |-> 0, height |-> 0, data |-> NoData]
PxA == <<255, 10, 20, 30>>
PxB == <<128, 40, 50, 60>>
Pixmap(w, h, px) == [width |-> w, height |-> h, data |-> [st |-> "live", px |-> px]]
Pixmaps == { Pixmap(2, 0, <<>>), Pixmap(1, 2, <<PxB, PxA>>) }

\* ARGB(a, r, g, b)
ARGB(a, r, g, b) == <<a % 256, r % 256, g % 256, b % 256>>

(***************************************************************************)
(* The cache entry as thumbnail_save writes it                             *)
(***************************************************************************)
Tok(kind, x, y, z) == <<kind, x, y, z>>
TokMagic == Tok("P6", 0, 0, 0)
TokDepth == Tok("255", 0, 0, 0)
TokHash  == Tok("#", 0, 0, 0)
TokNl    == Tok("\\n", 0, 0, 0)
TokJunk  == Tok("junk", 0, 0, 0)
TokZero  == Tok("zero", 0, 0, 0)
BoolByte(b) == IF b THEN 1 ELSE 0

\* the bytes of a struct thumbnail_params, one token per field
ParamsTokens(p) ==
    << Tok("size_t", p.thumb_width, 0, 0), Tok("size_t", p.thumb_height, 0, 0),
       Tok("ssize_t", p.offset_x, 0, 0),   Tok("ssize_t", p.offset_y, 0, 0),
       Tok("bool", BoolByte(p.fill), 0, 0), Tok("bool", BoolByte(p.antialias), 0, 0),
       Tok("float", p.scale[1], p.scale[2], 0) >>
ParamsLen == 7

\* SaveEntry writing the first three bytes of each pixel (alpha, red, green)
SaveEntryShifted(thumb, params) ==
    << TokMagic, Tok("dec", thumb.width, 0, 0), Tok("dec", thumb.height, 0, 0), TokDepth,
       TokHash >>
    \o ParamsTokens(params)
    \o << TokNl >>
    \o [k \in 1..(thumb.width * thumb.height) |->
           Tok("rgb", thumb.data.px[k][1], thumb.data.px[k][2], thumb.data.px[k][3])]

\* what thumbnail_save hands to the stream: header, '#', params, '\n', and
\* width * height records of red, green, blue
SaveEntry(thumb, params) ==
    << TokMagic, Tok("dec", thumb.width, 0, 0), Tok("dec", thumb.height, 0, 0), TokDepth,
       TokHash >>
    \o ParamsTokens(params)
    \o << TokNl >>
    \o [k \in 1..(thumb.width * thumb.height) |->
           Tok("rgb", thumb.data.px[k][2], thumb.data.px[k][3], thumb.data.px[k][4])]

(***************************************************************************)
(* Key bindings (src/src/keybind.c)                                        *)
(*  - a keysym is its name; a modifier mask is the set of its modifiers;   *)
(*  - a struct keybind is a node of the heap, a list is the sequence of    *)
(*    the indexes of its nodes, the head first.                            *)
(***************************************************************************)
\* bounds: entries of one section of the config, allocations that fail
MaxCfg == 2
MaxFail == 1

NoSymbol == "NoSymbol"
KEYMOD_SHIFT == {"Shift"}

\* entries of default_viewer and default_gallery (each table binds every
\* (key, mods) once): d, Shift+d, q and the special entry Shift+Delete
default_viewer ==
    << [key |-> "d",      mods |-> {},           action |-> "action_next_dir"],
       [key |-> "d",      mods |-> KEYMOD_SHIFT, action |-> "action_prev_dir"],
       [key |-> "q",      mods |-> {},           action |-> "action_exit"],
       [key |-> "Delete", mods |-> KEYMOD_SHIFT, action |-> "action_none"] >>
default_gallery ==
    << [key |-> "q",      mods |-> {},           action |-> "action_exit"],
       [key |-> "Delete", mods |-> KEYMOD_SHIFT, action |-> "action_none"] >>

\* xkb_keysym_from_name(name, XKB_KEYSYM_CASE_INSENSITIVE)
xkb_keysym_from_name(name) ==
    CASE name \in {"d", "D"} -> "d"
      [] name \in {"q", "Q"} -> "q"
      [] name \in {"x", "X"} -> "x"
      [] name = "Delete" -> "Delete"
      [] OTHER -> NoSymbol

\* the table virtual_keys
virtual_keys == [ScrollUp |-> "VKEY_SCROLL_UP", ScrollDown |-> "VKEY_SCROLL_DOWN"]

\* xkb_utf32_to_keysym(str_to_wide(name)[0]): the keysym of the first character
xkb_utf32_to_keysym(name) ==
    CASE name = "dx" -> "d"
      [] OTHER -> NoSymbol

\* parse_keymod(name, &key, &mods); a name is the sequence of its slices.
\* The result: [ok, key, mods]
parse_keymod(name) ==
    LET snum == Len(name)
        last == name[snum]
        mod_names == {"Ctrl", "Alt", "Shift"}
        mods == {name[i] : i \in 1..(snum - 1)}
        k1 == xkb_keysym_from_name(last)
        k2 == IF k1 = NoSymbol /\ last \in DOMAIN virtual_keys THEN virtual_keys[last] ELSE k1
        key == IF k2 = NoSymbol THEN xkb_utf32_to_keysym(last) ELSE k2
    IN  IF snum = 0 \/ ~(mods \subseteq mod_names)
        THEN [ok |-> FALSE, key |-> NoSymbol, mods |-> {}]
        ELSE [ok |-> key # NoSymbol, key |-> key, mods |-> mods]

\* action_create(text, &actions): [ok, actions]
action_create(text) ==
    CASE text = "exit" -> [ok |-> TRUE, actions |-> <<"action_exit">>]
      [] text = "info" -> [ok |-> TRUE, actions |-> <<"action_info">>]
      [] OTHER -> [ok |-> FALSE, actions |-> <<>>]

\* the entries a section of the config may hold
KeyVals ==
    { [key |-> <<"Shift", "d">>, value |-> "exit"],
      [key |-> <<"Shift", "D">>, value |-> "info"],
      [key |-> <<"D">>,          value |-> "info"],
      [key |-> <<"Super", "d">>, value |-> "exit"],
      [key |-> <<"q">>,          value |-> "bogus"] }

\* the lists of list.h
\* list_for_each up to the first entry among those of the set match
list_first(list, match) ==
    LET hits == {j \in 1..Len(list) : list[j] \in match}
    IN  IF hits = {} THEN 0 ELSE CHOOSE j \in hits : \A i \in hits : j <= i
list_remove(list, j) == [i \in 1..(Len(list) - 1) |-> IF i < j THEN list[i] ELSE list[i + 1]]
list_add(list, entry) == <<entry>> \o list

\* create_binding(key, mods, actions); ok: calloc succeeds
create_binding(key, mods, actions) ==
    [key |-> key, mods |-> mods, actions |-> actions, frees |-> 0]

\* free_binding(kb) for the node id of the heap
free_binding(heap, id) == [heap EXCEPT ![id].frees = @ + 1]

\* set_binding without the removal of the existing binding
set_binding_add_only(k, head, key, mods, actions, ok) ==
    IF ok
    THEN [k EXCEPT !.heap = Append(@, create_binding(key, mods, actions)),
                   ![head] = list_add(@, Len(k.heap) + 1)]
    ELSE k

\* lines 239-260.  k: the statics and the heap; head: "kb_viewer" or
\* "kb_gallery"; ok: the calloc of create_binding succeeds
set_binding(k, head, key, mods, actions, ok) ==
    LET match == {id \in 1..Len(k.heap) : k.heap[id].key = key /\ k.heap[id].mods = mods}
        j  == list_first(k[head], match)
        k1 == IF j = 0 THEN k
              ELSE [k EXCEPT ![head] = list_remove(@, j),
                             !.heap = free_binding(@, k[head][j])]
    IN  IF ok
        THEN [k1 EXCEPT !.heap = Append(@, create_binding(key, mods, actions)),
                        ![head] = list_add(@, Len(k1.heap) + 1)]
        ELSE k1

\* lines 268-298.  d: an entry of a table of defaults; seq_ok: the malloc of
\* the action sequence succeeds
set_default(k, head, d, seq_ok, ok) ==
    LET actions == IF d.action = "action_none" /\ d.key = "Delete" /\ d.mods = KEYMOD_SHIFT
                   THEN <<"action_exec", "action_skip_file">>
                   ELSE <<d.action>>
    IN  IF seq_ok THEN set_binding(k, head, d.key, d.mods, actions, ok) ELSE k

\* lines 311-331: one entry of the section
load_binding(k, head, kv, ok) ==
    LET km == parse_keymod(kv.key)
        ac == action_create(kv.value)
    IN  IF ~km.ok \/ ~ac.ok THEN k
        ELSE set_binding(k, head, km.key, km.mods, ac.actions, ok)

\* before keybind_init: both lists empty, the loop of line 340 at its start
KbInit ==
    [pc |-> "default_viewer", i |-> 1, fails |-> 0,
     kb_viewer |-> <<>>, kb_gallery |-> <<>>, heap |-> <<>>,
     passed |-> [kb_viewer |-> <<>>, kb_gallery |-> <<>>]]

(***************************************************************************)
(* State                                                                   *)
(***************************************************************************)
VARIABLES
    env,        \* the environment strings; getenv returns a pointer into them
    cache_dir,  \* the static of get_thumb_path: NULL or the variable it points into
    now,        \* the clock, in ticks
    srcCtime,   \* status-change time of the source file "/a", in ticks
    files,      \* the cache files: path -> [data, ctime]
    dirs,       \* the directories made so far
    th,         \* per thread: the frame of the call it runs (arguments, locals, result)
    hist,       \* history: the last save of source "a" that returned true, and
                \* what happened to the source and to the cache since
    kb          \* keybind.c: kb_viewer, kb_gallery, the bindings allocated, and
                \* the position of keybind_init

vars == <<env, cache_dir, now, srcCtime, files, dirs, th, hist, kb>>

Threads == {1, 2}

\* the call of pixmap_scale a thumbnail_create made: none yet
NoScale ==
    [scaler |-> "none", offset_x |-> 0, offset_y |-> 0, scale |-> FZero, alpha |-> FALSE]

IdleFrame ==
    [pc |-> "idle", op |-> "none", cont |-> "none", source |-> "a",
     tuple |-> DefaultTuple, params |-> ParamsOf(DefaultTuple),
     thumb |-> EmptyPixmap, thumb0 |-> EmptyPixmap,
     path |-> <<>>, reg |-> NULL,
     fp |-> [open |-> FALSE, pos |-> 0],
     out |-> <<>>, werr |-> FALSE,
     rdata |-> <<>>, cons |-> 0, eof |-> FALSE,
     header |-> "unset", saved_params |-> <<>>,
     st_img |-> -1, st_thumb |-> -1,
     image |-> Image, alpha |-> FALSE, scaled |-> NoScale,
     ret |-> "none", first |-> FALSE, resfail |-> FALSE,
     nopen |-> 0, nclose |-> 0, nalloc |-> 0, nfree |-> 0]

NoHist ==
    [saved |-> FALSE, thumb |-> EmptyPixmap, params |-> ParamsOf(DefaultTuple),
     tuple |-> DefaultTuple, touched |-> FALSE, loaded |-> FALSE]

\* the process is alive: no thread has crashed it
Alive == \A u \in Threads : th[u].ret # "crash"

At(t, label) == Alive /\ th[t].pc = label

\* `return v;` of the call thread t runs
Return(f, v) == [f EXCEPT !.pc = "done", !.ret = v]

\* st_ctime of a status-change time: whole seconds
StCtime(ticks) == ticks \div TicksPerSec

Init ==
    /\ env \in InitEnvs
    /\ cache_dir = NULL
    /\ now = 0
    /\ srcCtime = 0
    /\ files = <<>>
    /\ dirs = {}
    /\ th = [t \in Threads |-> IdleFrame]
    /\ hist = NoHist
    /\ kb = KbInit

(***************************************************************************)
(* Callers                                                                 *)
(***************************************************************************)
\* the requests of the callers: a pixmap to save, the source, (size, fill,
\* antialias); the over-long source is asked for with one pixmap and one tuple
Requests ==
    {<<pm, "a", tu>> : pm \in Pixmaps, tu \in ParamTuples}
        \cup {<<Pixmap(2, 0, <<>>), "long", DefaultTuple>>}

\* thread t calls thumbnail_save(thumb, source, params), params from
\* thumbnail_params
EnterSave(t, pm, src, tu) ==
    /\ At(t, "idle")
    /\ th' = [th EXCEPT ![t] =
                 [IdleFrame EXCEPT !.pc = "gp_check", !.op = "save",
                                   !.cont = "save_mkdir", !.source = src,
                                   !.tuple = tu, !.params = ParamsOf(tu),
                                   !.thumb = pm, !.thumb0 = pm]]
    /\ UNCHANGED <<kb, env, cache_dir, now, srcCtime, files, dirs, hist>>

\* thread t calls thumbnail_load(thumb, source, params) with a zeroed pixmap;
\* first: no load of the source was called since the last save of it
EnterLoad(t, src, tu) ==
    /\ At(t, "idle")
    /\ th' = [th EXCEPT ![t] =
                 [IdleFrame EXCEPT !.pc = "gp_check", !.op = "load",
                                   !.cont = "load_stat", !.source = src,
                                   !.tuple = tu, !.params = ParamsOf(tu),
                                   !.first = (src = "a" /\ ~hist.loaded)]]
    /\ hist' = IF src = "a" THEN [hist EXCEPT !.loaded = hist.saved] ELSE hist
    /\ UNCHANGED <<kb, env, cache_dir, now, srcCtime, files, dirs>>

CallSave(t) == \E rq \in Requests : EnterSave(t, rq[1], rq[2], rq[3])

CallLoad(t) == \E rq \in Requests : EnterLoad(t, rq[2], rq[3])

(***************************************************************************)
(* get_thumb_path                                                          *)
(***************************************************************************)
\* a read of the static cache_dir: its value in memory, or the copy the thread
\* holds in a register (the accesses are not synchronised)
CacheDirSeen(t) == {cache_dir, th[t].reg}

\* strcat(getenv(name), suffix) appends in place, inside the environment
Strcat(e, name, suffix) == [e EXCEPT ![name].val = @ \o suffix]

\* line 59: if (!cache_dir)
GpCheck(t) ==
    /\ At(t, "gp_check")
    /\ th' = [th EXCEPT ![t].reg = cache_dir,
                        ![t].pc = IF cache_dir = NULL THEN "gp_xdg" ELSE "gp_fmt"]
    /\ UNCHANGED <<kb, env, cache_dir, now, srcCtime, files, dirs, hist>>

\* line 60: cache_dir = getenv("XDG_CACHE_HOME")
GpGetXdg(t) ==
    /\ At(t, "gp_xdg")
    /\ LET v == IF env.XDG_CACHE_HOME.set THEN "XDG_CACHE_HOME" ELSE NULL
       IN  /\ cache_dir' = v
           /\ th' = [th EXCEPT ![t].reg = v, ![t].pc = "gp_branch"]
    /\ UNCHANGED <<kb, env, now, srcCtime, files, dirs, hist>>

\* lines 61-62: if (cache_dir) cache_dir = strcat(cache_dir, "/swayimg")
GpCatXdg(t) ==
    /\ At(t, "gp_branch")
    /\ \E v \in CacheDirSeen(t) :
          /\ v # NULL
          /\ env' = Strcat(env, v, SWAYIMG)
          /\ cache_dir' = v
          /\ th' = [th EXCEPT ![t].reg = v, ![t].pc = "gp_fmt"]
    /\ UNCHANGED <<kb, now, srcCtime, files, dirs, hist>>

\* GpGetHome without the test of line 65
GpGetHomeUnchecked(t) ==
    /\ At(t, "gp_branch")
    /\ \E v \in CacheDirSeen(t) :
          /\ v = NULL
          /\ LET h == IF env.HOME.set THEN "HOME" ELSE NULL
             IN  /\ cache_dir' = h
                 /\ th' = [th EXCEPT ![t].reg = h, ![t].pc = "gp_cat_home"]
    /\ UNCHANGED <<kb, env, now, srcCtime, files, dirs, hist>>

\* lines 63-67: else cache_dir = getenv("HOME"); if (!cache_dir) return false
GpGetHome(t) ==
    /\ At(t, "gp_branch")
    /\ \E v \in CacheDirSeen(t) :
          /\ v = NULL
          /\ LET h == IF env.HOME.set THEN "HOME" ELSE NULL
             IN  /\ cache_dir' = h
                 /\ th' = [th EXCEPT ![t] =
                              IF h = NULL THEN Return([@ EXCEPT !.reg = h], "false")
                              ELSE [@ EXCEPT !.reg = h, !.pc = "gp_cat_home"]]
    /\ UNCHANGED <<kb, env, now, srcCtime, files, dirs, hist>>

\* line 68: cache_dir = strcat(cache_dir, "/.swayimg")
GpCatHome(t) ==
    /\ At(t, "gp_cat_home")
    /\ \E v \in CacheDirSeen(t) :
          IF v = NULL
          THEN \* strcat(NULL, ...): the process dies
               /\ th' = [th EXCEPT ![t] = Return(@, "crash")]
               /\ UNCHANGED <<kb, env, cache_dir>>
          ELSE /\ env' = Strcat(env, v, DOT_SWAYIMG)
               /\ cache_dir' = v
               /\ th' = [th EXCEPT ![t].reg = v, ![t].pc = "gp_fmt"]
    /\ UNCHANGED <<kb, now, srcCtime, files, dirs, hist>>

\* lines 71-72: r = snprintf(path, PATH_MAX, "%s%s", cache_dir, source);
\*              return r >= 0 && r < PATH_MAX
GpFmt(t) ==
    /\ At(t, "gp_fmt")
    /\ \E v \in CacheDirSeen(t) :
          IF v = NULL
          THEN th' = [th EXCEPT ![t] = Return(@, "crash")]
          ELSE LET src == Source(th[t].source)
                   r   == Len(env[v].val) + Len(src)
               IN  th' = [th EXCEPT ![t] =
                             IF r < PATH_MAX
                             THEN [@ EXCEPT !.path = env[v].val \o src, !.pc = th[t].cont]
                             ELSE Return(@, "false")]
    /\ UNCHANGED <<kb, env, cache_dir, now, srcCtime, files, dirs, hist>>

(***************************************************************************)
(* thumbnail_save                                                          *)
(***************************************************************************)
Min(a, b) == IF a < b THEN a ELSE b
Max(a, b) == IF a > b THEN a ELSE b

\* the positions of the '/' that make_directories stops at: strchr(slash + 1, '/')
Slashes(path) == {k \in 2..Len(path) : path[k] = "/"}

\* make_directories(path): mkdir of every proper prefix that ends before a '/',
\* in order; stop = 0: every mkdir succeeds or finds the directory (EEXIST);
\* otherwise the mkdir at the slash `stop` fails with another error.
make_directories(path, stop) ==
    {SubSeq(path, 1, k - 1) : k \in {j \in Slashes(path) : stop = 0 \/ j < stop}}

\* lines 120-122
SaveMkdir(t) ==
    /\ At(t, "save_mkdir")
    /\ \E stop \in Slashes(th[t].path) \cup {0} :
          /\ dirs' = dirs \cup make_directories(th[t].path, stop)
          /\ th' = [th EXCEPT ![t] = IF stop = 0 THEN [@ EXCEPT !.pc = "save_fopen"]
                                     ELSE Return(@, "false")]
    /\ UNCHANGED <<kb, env, cache_dir, now, srcCtime, files, hist>>

\* the directory a path lies in
ParentDir(path) ==
    LET sl == {k \in 1..Len(path) : path[k] = "/"}
    IN  IF sl = {} THEN <<>>
        ELSE SubSeq(path, 1, (CHOOSE k \in sl : \A j \in sl : j <= k) - 1)

\* write(fd, chunk) at the offset pos of the stream; a gap reads as zero bytes
WriteAt(data, pos, chunk) ==
    [k \in 1..Max(Len(data), pos + Len(chunk)) |->
        IF k > pos /\ k <= pos + Len(chunk) THEN chunk[k - pos]
        ELSE IF k <= Len(data) THEN data[k]
        ELSE TokZero]

\* lines 124-139: fopen(path, "wb") creates or truncates the file; fprintf and
\* fwrite fill the stream's buffer with the entry
SaveFopen(t) ==
    /\ At(t, "save_fopen")
    /\ \E ok \in BOOLEAN :
          IF ok
          THEN /\ ParentDir(th[t].path) \in dirs
               /\ files' = (th[t].path :> [data |-> <<>>, ctime |-> now]) @@ files
               /\ th' = [th EXCEPT ![t].fp = [open |-> TRUE, pos |-> 0],
                                   ![t].nopen = @ + 1,
                                   ![t].out = SaveEntry(th[t].thumb, th[t].params),
                                   ![t].pc = "save_write"]
          ELSE /\ th' = [th EXCEPT ![t] = Return(@, "false")]
               /\ UNCHANGED files
    /\ UNCHANGED <<kb, env, cache_dir, now, srcCtime, dirs, hist>>

\* the stream writes one full buffer; the result of write() is not looked at.
\* ok = FALSE: write() fails (no space left, quota, I/O error) and, the disk
\* staying as it is, so does every later write of the stream
Flush(f, chunk, ok) ==
    IF ok /\ chunk # <<>>
    THEN [data |-> WriteAt(files[f.path].data, f.fp.pos, chunk), ctime |-> now]
    ELSE files[f.path]

\* lines 128-139, whenever the buffer is full
SaveFlush(t) ==
    /\ At(t, "save_write")
    /\ Len(th[t].out) > ChunkLen
    /\ \E ok \in BOOLEAN :
          /\ ok => ~th[t].werr
          /\ files' = [files EXCEPT ![th[t].path] =
                          Flush(th[t], SubSeq(th[t].out, 1, ChunkLen), ok)]
          /\ th' = [th EXCEPT ![t].out = SubSeq(@, ChunkLen + 1, Len(@)),
                              ![t].fp.pos = IF ok THEN @ + ChunkLen ELSE @,
                              ![t].werr = ~ok]
    /\ UNCHANGED <<kb, env, cache_dir, now, srcCtime, dirs, hist>>

\* what the history keeps of a save that returned true
Saved(f) ==
    [saved |-> TRUE, thumb |-> f.thumb, params |-> f.params, tuple |-> f.tuple,
     touched |-> FALSE, loaded |-> FALSE]

\* lines 141-142: fclose(fp) writes what is left in the buffer; return true
SaveFclose(t) ==
    /\ At(t, "save_write")
    /\ Len(th[t].out) <= ChunkLen
    /\ \E ok \in BOOLEAN :
          /\ ok => ~th[t].werr
          /\ files' = [files EXCEPT ![th[t].path] = Flush(th[t], th[t].out, ok)]
          /\ th' = [th EXCEPT ![t] =
                       Return([@ EXCEPT !.out = <<>>, !.werr = ~ok,
                                        !.fp = [open |-> FALSE, pos |-> 0],
                                        !.nclose = @ + 1], "true")]
    /\ hist' = IF th[t].source = "a" THEN Saved(th[t]) ELSE hist
    /\ UNCHANGED <<kb, env, cache_dir, now, srcCtime, dirs>>

(***************************************************************************)
(* thumbnail_load                                                          *)
(***************************************************************************)
AllParams == {ParamsOf(tu) : tu \in ParamTuples}

\* lines 160-168: stat of the source and of the cache file, difftime of their
\* st_ctime, then get_thumb_path once more
LoadStat(t) ==
    /\ At(t, "load_stat")
    /\ LET f     == th[t]
           img   == StCtime(srcCtime)
           thumb == IF f.path \in DOMAIN files THEN StCtime(files[f.path].ctime) ELSE -1
       IN  th' = [th EXCEPT ![t] =
                     IF f.source # "a" \/ f.path \notin DOMAIN files
                     THEN Return(@, "false")
                     ELSE IF img - thumb > 0
                     THEN Return([@ EXCEPT !.st_img = img, !.st_thumb = thumb], "false")
                     ELSE [@ EXCEPT !.st_img = img, !.st_thumb = thumb,
                                    !.pc = "gp_check", !.cont = "load_fopen"]]
    /\ UNCHANGED <<kb, env, cache_dir, now, srcCtime, files, dirs, hist>>

\* LoadFopen opening the file for writing ("wb") instead of reading
LoadFopenWrite(t) ==
    /\ At(t, "load_fopen")
    /\ \E ok \in BOOLEAN :
          /\ ok => th[t].path \in DOMAIN files
          /\ files' = IF ok THEN (th[t].path :> [data |-> <<>>, ctime |-> now]) @@ files
                            ELSE files
          /\ th' = [th EXCEPT ![t] =
                       IF ok THEN [@ EXCEPT !.fp = [open |-> TRUE, pos |-> 0],
                                            !.nopen = @ + 1, !.pc = "load_header"]
                       ELSE Return([@ EXCEPT !.resfail = TRUE], "false")]
    /\ UNCHANGED <<kb, env, cache_dir, now, srcCtime, dirs, hist>>

\* lines 170-172: fopen(path, "rb")
LoadFopen(t) ==
    /\ At(t, "load_fopen")
    /\ \E ok \in BOOLEAN :
          /\ ok => th[t].path \in DOMAIN files
          /\ th' = [th EXCEPT ![t] =
                       IF ok THEN [@ EXCEPT !.fp = [open |-> TRUE, pos |-> 0],
                                            !.nopen = @ + 1, !.pc = "load_header"]
                       ELSE Return([@ EXCEPT !.resfail = TRUE], "false")]
    /\ UNCHANGED <<kb, env, cache_dir, now, srcCtime, files, dirs, hist>>

\* the tokens the statement at pc must have seen before it can finish
Need(f) ==
    CASE f.pc = "load_header" -> 4
      [] f.pc = "load_params" -> f.cons + ParamsLen + 2
      [] f.pc = "load_pixels" -> f.cons + f.thumb.width * f.thumb.height
      [] OTHER -> 0

\* the stream is out of data: read() of the next buffer; nothing left is EOF
LoadRead(t) ==
    /\ Alive
    /\ th[t].op = "load"
    /\ ~th[t].eof
    /\ Len(th[t].rdata) < Need(th[t])
    /\ LET f     == th[t]
           data  == files[f.path].data
           chunk == SubSeq(data, f.fp.pos + 1, Min(f.fp.pos + ChunkLen, Len(data)))
       IN  th' = [th EXCEPT ![t].rdata = @ \o chunk,
                            ![t].fp.pos = @ + Len(chunk),
                            ![t].eof = (chunk = <<>>)]
    /\ UNCHANGED <<kb, env, cache_dir, now, srcCtime, files, dirs, hist>>

Ready(f) == f.eof \/ Len(f.rdata) >= Need(f)

\* lines 174-182: fscanf(fp, "%2s\n%zu %zu\n255\n", header, &thumb->width,
\* &thumb->height) != 3, then strcmp(header, "P6").  Each conversion stores as
\* soon as it matches; the literal 255 is matched after the third conversion
\* and does not count.
LoadHeader(t) ==
    /\ At(t, "load_header")
    /\ Ready(th[t])
    /\ LET f  == th[t]
           d  == f.rdata
           n1 == Len(d) >= 1
           n2 == n1 /\ Len(d) >= 2 /\ d[2][1] = "dec"
           n3 == n2 /\ Len(d) >= 3 /\ d[3][1] = "dec"
           hd == IF ~n1 THEN f.header ELSE IF d[1] = TokMagic THEN "P6" ELSE "other"
           g  == [f EXCEPT !.header = hd,
                           !.thumb.width  = IF n2 THEN d[2][2] ELSE @,
                           !.thumb.height = IF n3 THEN d[3][2] ELSE @,
                           !.cons = IF n3 /\ Len(d) >= 4 /\ d[4] = TokDepth THEN 4
                                    ELSE IF n3 THEN 3 ELSE 0]
       IN  th' = [th EXCEPT ![t] =
                     IF n3 /\ hd = "P6" THEN [g EXCEPT !.pc = "load_params"]
                     ELSE [g EXCEPT !.pc = "load_fail"]]
    /\ UNCHANGED <<kb, env, cache_dir, now, srcCtime, files, dirs, hist>>

\* lines 184-191: three fread whose results are not looked at, then memcmp.
\* What the file does not hold stays as the stack had it: saved_params is not
\* initialised, so those fields are those of any params value (junk).
LoadParams(t) ==
    /\ At(t, "load_params")
    /\ Ready(th[t])
    /\ LET f     == th[t]
           d     == f.rdata
           first == f.cons + 2     \* after the '#'
       IN  \E junk \in AllParams :
              /\ Len(d) >= first + ParamsLen - 1 => junk = f.params
              /\ LET sp == [k \in 1..ParamsLen |->
                              IF first + k - 1 <= Len(d) THEN d[first + k - 1]
                              ELSE ParamsTokens(junk)[k]]
                 IN  th' = [th EXCEPT ![t] =
                               [f EXCEPT !.saved_params = sp,
                                         !.cons = Min(Len(d), f.cons + ParamsLen + 2),
                                         !.pc = IF ParamsTokens(f.params) = sp
                                                THEN "load_create" ELSE "load_fail"]]
    /\ UNCHANGED <<kb, env, cache_dir, now, srcCtime, files, dirs, hist>>

\* pixmap_create(pm, width, height): a zeroed buffer, or failure with pm untouched
pixmap_create(pm, width, height, ok) ==
    IF ok THEN [width |-> width, height |-> height,
                data |-> [st |-> "live", px |-> [k \in 1..(width * height) |-> ARGB(0, 0, 0, 0)]]]
    ELSE pm

\* pixmap_free(pm): free(pm->data); the pointer stays in pm
pixmap_free(pm) == [pm EXCEPT !.data.st = "freed"]

\* lines 193-195
LoadCreate(t) ==
    /\ At(t, "load_create")
    /\ \E ok \in BOOLEAN :
          th' = [th EXCEPT ![t].thumb = pixmap_create(@, @.width, @.height, ok),
                           ![t].nalloc = IF ok THEN @ + 1 ELSE @,
                           ![t].resfail = ~ok,
                           ![t].pc = IF ok THEN "load_pixels" ELSE "load_fail"]
    /\ UNCHANGED <<kb, env, cache_dir, now, srcCtime, files, dirs, hist>>

\* lines 197-204: one fread per pixel; the first that fails frees the pixmap
LoadPixels(t) ==
    /\ At(t, "load_pixels")
    /\ Ready(th[t])
    /\ LET f    == th[t]
           d    == f.rdata
           n    == f.thumb.width * f.thumb.height
           have == Min(n, Len(d) - f.cons)
           px   == [k \in 1..n |->
                       IF k <= have
                       THEN ARGB(255, d[f.cons + k][2], d[f.cons + k][3], d[f.cons + k][4])
                       ELSE f.thumb.data.px[k]]
           g    == [f EXCEPT !.thumb.data.px = px, !.cons = @ + have]
       IN  th' = [th EXCEPT ![t] =
                     IF have = n THEN [g EXCEPT !.pc = "load_ok"]
                     ELSE [g EXCEPT !.thumb = pixmap_free(@), !.nfree = @ + 1,
                                    !.pc = "load_fail"]]
    /\ UNCHANGED <<kb, env, cache_dir, now, srcCtime, files, dirs, hist>>

\* fclose(fp)
fclose(f) == [f EXCEPT !.fp = [open |-> FALSE, pos |-> 0], !.nclose = @ + 1]

\* lines 206-207
LoadOk(t) ==
    /\ At(t, "load_ok")
    /\ th' = [th EXCEPT ![t] = Return(fclose(@), "true")]
    /\ UNCHANGED <<kb, env, cache_dir, now, srcCtime, files, dirs, hist>>

\* LoadFail with `return false` in place of `goto fail`: no fclose
LoadFailLeak(t) ==
    /\ At(t, "load_fail")
    /\ th' = [th EXCEPT ![t] = Return(@, "false")]
    /\ UNCHANGED <<kb, env, cache_dir, now, srcCtime, files, dirs, hist>>

\* lines 209-211
LoadFail(t) ==
    /\ At(t, "load_fail")
    /\ th' = [th EXCEPT ![t] = Return(fclose(@), "false")]
    /\ UNCHANGED <<kb, env, cache_dir, now, srcCtime, files, dirs, hist>>

(***************************************************************************)
(* thumbnail_params and thumbnail_create as calls                          *)
(***************************************************************************)
\* thread t calls thumbnail_params(&params, image, size, fill, antialias)
EnterParams(t, img, tu) ==
    /\ At(t, "idle")
    /\ th' = [th EXCEPT ![t] =
                 Return([IdleFrame EXCEPT !.op = "params", !.image = img, !.tuple = tu,
                                          !.params = thumbnail_params(img, tu[1], tu[2], tu[3])],
                        "void")]
    /\ UNCHANGED <<kb, env, cache_dir, now, srcCtime, files, dirs, hist>>

\* Scaler with params->scale >= 1.0 in place of params->scale > 1.0
ScalerAtLeastOne(params) ==
    IF params.antialias
    THEN IF ~FLess(params.scale, FOne) THEN "pixmap_bicubic" ELSE "pixmap_average"
    ELSE "pixmap_nearest"

\* lines 218-224: the resampler
Scaler(params) ==
    IF params.antialias
    THEN IF FLess(FOne, params.scale) THEN "pixmap_bicubic" ELSE "pixmap_average"
    ELSE "pixmap_nearest"

\* pixmap_scale(scaler, src, dst, x, y, scale, alpha): the call, as the
\* resampler receives it
pixmap_scale(scaler, x, y, scale, alpha) ==
    [scaler |-> scaler, offset_x |-> x, offset_y |-> y, scale |-> scale, alpha |-> alpha]

\* thread t calls thumbnail_create(&thumb, image, params) with a zeroed pixmap
\* and params as thumbnail_params filled it for tu = (size, fill, antialias);
\* ok: the allocation succeeds
EnterCreate(t, img, alpha, tu, params, ok) ==
    /\ At(t, "idle")
    /\ ok => (params.thumb_width <= MaxAlloc /\ params.thumb_height <= MaxAlloc)
    /\ LET f == [IdleFrame EXCEPT !.op = "create", !.image = img, !.alpha = alpha,
                                  !.tuple = tu, !.params = params]
       IN  th' = [th EXCEPT ![t] =
                 IF ok
                 THEN Return([f EXCEPT
                                 !.thumb = pixmap_create(@, params.thumb_width,
                                                         params.thumb_height, TRUE),
                                 !.nalloc = 1,
                                 !.scaled = pixmap_scale(Scaler(params), params.offset_x,
                                                         params.offset_y, params.scale, alpha)],
                             "true")
                 ELSE Return([f EXCEPT !.resfail = TRUE], "false")]
    /\ UNCHANGED <<kb, env, cache_dir, now, srcCtime, files, dirs, hist>>

CallParams(t) == At(t, "idle") /\ \E tu \in ParamTuples : EnterParams(t, Image, tu)

CallCreate(t) ==
    /\ At(t, "idle")
    /\ \E tu \in ParamTuples, alpha \in BOOLEAN, ok \in BOOLEAN :
           \E params \in {ParamsOf(tu)} : EnterCreate(t, Image, alpha, tu, params, ok)

(***************************************************************************)
(* The world around the calls                                              *)
(***************************************************************************)
Idle == \A t \in Threads : th[t].pc = "idle"

\* the caller has taken the result: the frame of the call is gone
Retire(t) ==
    /\ At(t, "done")
    /\ th' = [th EXCEPT ![t] = IdleFrame]
    /\ UNCHANGED <<kb, env, cache_dir, now, srcCtime, files, dirs, hist>>

Tick ==
    /\ Idle
    /\ now < MaxTime
    /\ now' = now + 1
    /\ UNCHANGED <<kb, env, cache_dir, srcCtime, files, dirs, th, hist>>

\* the source file changes (rewritten, chmod, ...): its status-change time is now
TouchSource ==
    /\ Idle
    /\ srcCtime' = now
    /\ hist' = [hist EXCEPT !.touched = hist.saved]
    /\ UNCHANGED <<kb, env, cache_dir, now, files, dirs, th>>

\* something else truncates a cache file
TruncateCache ==
    /\ Idle
    /\ \E p \in DOMAIN files : \E n \in 0..(Len(files[p].data) - 1) :
          files' = [files EXCEPT ![p] = [data |-> SubSeq(@.data, 1, n), ctime |-> now]]
    /\ UNCHANGED <<kb, env, cache_dir, now, srcCtime, dirs, th, hist>>

\* something else overwrites the magic of a cache file (with another two
\* characters)
CorruptHeader ==
    /\ Idle
    /\ \E p \in DOMAIN files :
          /\ Len(files[p].data) >= 1
          /\ files[p].data[1] # TokJunk
          /\ files' = [files EXCEPT ![p] = [data |-> [@.data EXCEPT ![1] = TokJunk],
                                            ctime |-> now]]
    /\ UNCHANGED <<kb, env, cache_dir, now, srcCtime, dirs, th, hist>>

Step(t) ==
    \/ GpCheck(t) \/ GpGetXdg(t) \/ GpCatXdg(t) \/ GpGetHome(t) \/ GpCatHome(t) \/ GpFmt(t)
    \/ SaveMkdir(t) \/ SaveFopen(t) \/ SaveFlush(t) \/ SaveFclose(t)
    \/ LoadStat(t) \/ LoadFopen(t) \/ LoadRead(t) \/ LoadHeader(t) \/ LoadParams(t)
    \/ LoadCreate(t) \/ LoadPixels(t) \/ LoadOk(t) \/ LoadFail(t)

\* one thread whose calls follow one another, while time passes and the source
\* changes
Next ==
    \/ CallSave(1) \/ CallLoad(1) \/ CallParams(1) \/ CallCreate(1)
    \/ Step(1) \/ Retire(1)
    \/ Tick \/ TouchSource

Spec == Init /\ [][Next]_vars

\* one thread whose calls follow one another, while the cache files are damaged
\* from outside
NextCorrupt ==
    \/ CallSave(1) \/ CallLoad(1)
    \/ Step(1) \/ Retire(1)
    \/ TruncateCache \/ CorruptHeader

SpecCorrupt == Init /\ [][NextCorrupt]_vars

(***************************************************************************)
(* Two threads, one call each (the cache files are not locked and the      *)
(* static cache_dir is not synchronised)                                   *)
(***************************************************************************)
\* the entry on disk when the two calls start, if the process saved one
\* earlier
OldThumb == Pixmap(1, 1, <<PxA>>)
OldRoot == <<"/", "c">> \o SWAYIMG
OldPath == OldRoot \o Source("a")

ConcPixmaps == { Pixmap(1, 1, <<PxA>>), Pixmap(1, 2, <<PxB, PxA>>) }

\* either nothing has called get_thumb_path yet, or an earlier save has
\* resolved the root and written the entry of OldThumb
InitConc ==
    /\ kb = KbInit
    /\ now = 0
    /\ srcCtime = 0
    /\ th = [t \in Threads |-> IdleFrame]
    /\ \/ /\ env \in InitEnvs
          /\ cache_dir = NULL
          /\ files = <<>>
          /\ dirs = {}
          /\ hist = NoHist
       \/ /\ env = [XDG_CACHE_HOME |-> [set |-> TRUE, val |-> OldRoot],
                     HOME           |-> [set |-> TRUE, val |-> <<"/", "h">>]]
          /\ cache_dir = "XDG_CACHE_HOME"
          /\ files = (OldPath :> [data  |-> SaveEntry(OldThumb, ParamsOf(DefaultTuple)),
                                  ctime |-> 0])
          /\ dirs = make_directories(OldPath, 0)
          /\ hist = [NoHist EXCEPT !.saved = TRUE, !.thumb = OldThumb]

ConcSave(t) == \E pm \in ConcPixmaps : EnterSave(t, pm, "a", DefaultTuple)

ConcLoad(t) == EnterLoad(t, "a", DefaultTuple)

NextConc ==
    \/ ConcSave(1) \/ ConcLoad(1) \/ Step(1)
    \/ ConcSave(2) \/ ConcLoad(2) \/ Step(2)

SpecConc == InitConc /\ [][NextConc]_vars

(***************************************************************************)
(* The geometry: thumbnail_params and thumbnail_create over source images  *)
(* of every shape and over small and very large target sizes               *)
(***************************************************************************)
GeomParams(t) ==
    /\ At(t, "idle")
    /\ \E img \in Images, size \in Sizes, fill \in BOOLEAN, antialias \in BOOLEAN :
           EnterParams(t, img, <<size, fill, antialias>>)

GeomCreate(t) ==
    /\ At(t, "idle")
    /\ \E img \in Images, size \in Sizes, fill \in BOOLEAN, antialias \in BOOLEAN,
          alpha \in BOOLEAN, ok \in BOOLEAN :
           \E params \in {thumbnail_params(img, size, fill, antialias)} :
               EnterCreate(t, img, alpha, <<size, fill, antialias>>, params, ok)

NextGeom == GeomParams(1) \/ GeomCreate(1) \/ Retire(1)

SpecGeom == Init /\ [][NextGeom]_vars

(***************************************************************************)
(* keybind_init, one set_binding at a time                                 *)
(***************************************************************************)
Table(head) == IF head = "kb_viewer" THEN default_viewer ELSE default_gallery
DefaultPc(head) == IF head = "kb_viewer" THEN "default_viewer" ELSE "default_gallery"
ConfigPc(head) == IF head = "kb_viewer" THEN "config_viewer" ELSE "config_gallery"

\* an allocation may fail while fewer than MaxFail have
Failures(seq_ok, ok) == (IF seq_ok THEN 0 ELSE 1) + (IF seq_ok /\ ~ok THEN 1 ELSE 0)

\* lines 340-345: one turn of a loop over a table of defaults
SetDefault(head) ==
    /\ kb.pc = DefaultPc(head)
    /\ \E seq_ok \in BOOLEAN, ok \in BOOLEAN :
          /\ kb.fails + Failures(seq_ok, ok) <= MaxFail
          /\ LET k == set_default(kb, head, Table(head)[kb.i], seq_ok, ok)
                 last == kb.i = Len(Table(head))
             IN  kb' = [k EXCEPT !.fails = @ + Failures(seq_ok, ok),
                                 !.i = IF last THEN 1 ELSE @ + 1,
                                 !.pc = IF ~last THEN @
                                        ELSE IF head = "kb_viewer" THEN "default_gallery"
                                        ELSE "config_viewer"]
    /\ UNCHANGED <<env, cache_dir, now, srcCtime, files, dirs, th, hist>>

\* history: what load_binding hands to set_binding for the entry kv, if it
\* is valid
Passed(kv) ==
    LET km == parse_keymod(kv.key)
        ac == action_create(kv.value)
    IN  IF km.ok /\ ac.ok
        THEN << [key |-> km.key, mods |-> km.mods, actions |-> ac.actions] >>
        ELSE << >>

\* lines 348-349, 311-331: the next entry of the section of head
LoadEntry(head) ==
    /\ kb.pc = ConfigPc(head)
    /\ kb.i <= MaxCfg
    /\ \E kv \in KeyVals, ok \in BOOLEAN :
          /\ kb.fails + Failures(TRUE, ok) <= MaxFail
          /\ ~ok => (parse_keymod(kv.key).ok /\ action_create(kv.value).ok)
          /\ kb' = [load_binding(kb, head, kv, ok) EXCEPT
                       !.fails = @ + Failures(TRUE, ok),
                       !.i = @ + 1,
                       !.passed[head] = @ \o Passed(kv)]
    /\ UNCHANGED <<env, cache_dir, now, srcCtime, files, dirs, th, hist>>

\* the section of head has no more entries (or the config has no such section)
EndSection(head) ==
    /\ kb.pc = ConfigPc(head)
    /\ kb' = [kb EXCEPT !.i = 1,
                        !.pc = IF head = "kb_viewer" THEN "config_gallery" ELSE "done"]
    /\ UNCHANGED <<env, cache_dir, now, srcCtime, files, dirs, th, hist>>

NextKeys ==
    \/ SetDefault("kb_viewer") \/ SetDefault("kb_gallery")
    \/ LoadEntry("kb_viewer") \/ LoadEntry("kb_gallery")
    \/ EndSection("kb_viewer") \/ EndSection("kb_gallery")

SpecKeys == Init /\ [][NextKeys]_vars

(***************************************************************************)
(* Properties                                                              *)
(***************************************************************************)
\* the call of thread t has returned
Done(t, op) == th[t].pc = "done" /\ th[t].op = op

\* a pixmap as its cache entry holds it: red, green and blue, alpha opaque
Opaque(pm) ==
    [pm EXCEPT !.data.px = [k \in DOMAIN @ |-> ARGB(255, @[k][2], @[k][3], @[k][4])]]

\* the params record a cache file holds, after the 4 header tokens and the '#'
Embedded(data) == SubSeq(data, 6, Min(Len(data), 5 + ParamsLen))

\* C1: round trip.  After a save of the source returned true and the source
\* was not touched since, the next load with the same params returns true
\* with the width, the height and the pixels (alpha apart) that were saved,
\* unless the load itself ran out of file handles or memory.
C1_RoundTrip ==
    \A t \in Threads :
        (/\ Done(t, "load") /\ th[t].first /\ ~th[t].resfail
         /\ hist.saved /\ ~hist.touched /\ th[t].params = hist.params)
            => (th[t].ret = "true" /\ th[t].thumb = Opaque(hist.thumb))

\* C2: a load returns true only if the status-change time of the source is
\* not later than that of the cache file and the params record in the cache
\* file equals the caller's params.
C2_FreshOnly ==
    \A t \in Threads :
        (Done(t, "load") /\ th[t].ret = "true")
            => (/\ srcCtime <= files[th[t].path].ctime
                /\ Embedded(files[th[t].path].data) = ParamsTokens(th[t].params))

\* C3: staleness.  After a save returned true and the status-change time of
\* the source was updated at a later time than the save wrote the cache file,
\* the next load with the same params returns false.
C3_Staleness ==
    \A t \in Threads :
        (/\ Done(t, "load") /\ th[t].first
         /\ hist.saved /\ hist.touched /\ th[t].params = hist.params
         /\ th[t].path \in DOMAIN files /\ srcCtime > files[th[t].path].ctime)
            => th[t].ret = "false"

\* C4: param mismatch.  After a save with the params of one (size, fill,
\* antialias), a load with the params of another tuple returns false.
C4_ParamMismatch ==
    \A t \in Threads :
        (Done(t, "load") /\ hist.saved /\ th[t].tuple # hist.tuple)
            => th[t].ret = "false"

\* C5: a load that returns false leaves the caller's pixmap (width, height,
\* data) as it was before the call.
C5_FailureWithNothing ==
    \A t \in Threads :
        (Done(t, "load") /\ th[t].ret = "false") => th[t].thumb = th[t].thumb0

\* C6: when a load returns, every handle it opened is closed exactly once,
\* and when it returns false every buffer it allocated is freed exactly once.
C6_LoadReleases ==
    \A t \in Threads :
        Done(t, "load")
            => (/\ th[t].nclose = th[t].nopen
                /\ ~th[t].fp.open
                /\ th[t].ret = "false" => th[t].nfree = th[t].nalloc)

\* C6, its case: a load of a cache file with a corrupted header has opened
\* the file and returned false
C6_CorruptHeaderLoad ==
    /\ Done(1, "load") /\ th[1].ret = "false"
    /\ th[1].header = "other" /\ th[1].nopen = 1

\* C7: a save returns true only if the cache file holds the complete entry:
\* header, params and width * height pixel records.
C7_SaveTrueIsComplete ==
    \A t \in Threads :
        (Done(t, "save") /\ th[t].ret = "true")
            => files[th[t].path].data = SaveEntry(th[t].thumb, th[t].params)

\* C8: with XDG_CACHE_HOME and HOME both unset, every save and every load
\* returns false and no file or directory exists after any sequence of calls.
C8_NoCacheRoot ==
    (~env.XDG_CACHE_HOME.set /\ ~env.HOME.set)
        => (/\ \A t \in Threads :
                  (th[t].pc = "done" /\ th[t].op \in {"save", "load"}) => th[t].ret = "false"
            /\ files = <<>>
            /\ dirs = {})

\* C8, its case: a save has returned with both variables unset
C8_SaveWithoutRoot ==
    /\ ~env.XDG_CACHE_HOME.set /\ ~env.HOME.set
    /\ Done(1, "save") /\ th[1].nopen = 0 /\ th[1].path = <<>>

\* C9: a load that runs while another thread saves to the same path and
\* returns true returns a complete entry, the old one or one of a saving
\* thread; and when the calls have returned without a write error the file
\* is the complete entry of the last save to finish.
C9_NoTornEntry ==
    /\ \A t \in Threads :
           (Done(t, "load") /\ th[t].ret = "true")
               => th[t].thumb \in
                      {Opaque(OldThumb)}
                          \cup {Opaque(th[u].thumb0) : u \in {v \in Threads : th[v].op = "save"}}
    /\ \A t \in Threads :
           (/\ \A u \in Threads : th[u].pc = "done" /\ ~th[u].werr
            /\ Done(t, "save") /\ th[t].ret = "true")
               => files[th[t].path].data = SaveEntry(hist.thumb, hist.params)

\* the root one resolution gives: the value of the variable and the suffix,
\* once
ExpectedRoot ==
    IF env.XDG_CACHE_HOME.set THEN <<"/", "c">> \o SWAYIMG ELSE <<"/", "h">> \o DOT_SWAYIMG

\* C10: under any interleaving of first calls, every path a caller builds is
\* the root of one sequential resolution followed by the source, no call
\* reads a root that is not there, and when the calls have returned the
\* memoized root is that root.
C10_RootOnce ==
    /\ \A t \in Threads : th[t].path # <<>> => th[t].path = ExpectedRoot \o Source(th[t].source)
    /\ \A t \in Threads : th[t].ret # "crash"
    /\ (cache_dir # NULL /\ \A t \in Threads : th[t].pc \in {"idle", "done"})
           => env[cache_dir].val = ExpectedRoot

\* the tokens of a complete entry of width x height pixels: 4 of the header,
\* '#', the params record, '\n' and the pixel records
EntryLen(width, height) == 4 + 1 + ParamsLen + 1 + width * height

\* C11: a load never returns true on a cache file that ends before the end of
\* its entry (inside the header, inside the params record, or with fewer
\* than width * height pixel records), zero-area entries included.
C11_TruncatedMisses ==
    \A t \in Threads :
        (Done(t, "load") /\ th[t].ret = "true")
            => Len(files[th[t].path].data) >= EntryLen(th[t].thumb.width, th[t].thumb.height)

\* a step of thread t that is not a step of thumbnail_save
OtherStep(t) == th'[t] # th[t] /\ th'[t].op # "save"

\* C12: only thumbnail_save creates or overwrites cache entries: a step of
\* thumbnail_load, thumbnail_params or thumbnail_create leaves every file
\* (content and status-change time) and every directory as it was, and no
\* step of any operation removes a file or a directory.
C12_OnlySaveWrites ==
    [][/\ (\E t \in Threads : OtherStep(t)) => (files' = files /\ dirs' = dirs)
       /\ DOMAIN files \subseteq DOMAIN files'
       /\ dirs \subseteq dirs']_vars

\* C12, its case: a load has read an entry that is still in the cache
C12_LoadedEntryKept ==
    /\ Done(1, "load") /\ th[1].ret = "true"
    /\ th[1].path \in DOMAIN files
    /\ files[th[1].path].data = SaveEntry(hist.thumb, hist.params)

\* C13: with fill = false thumbnail_params yields scale = min(size / width,
\* size / height), offsets (0, 0), thumb dimensions that are the source
\* dimensions times that scale rounded toward zero, neither of them above
\* size and at least one of them at size, up to one unit of rounding.
C13_FitGeometry ==
    \A t \in Threads :
        (Done(t, "params") /\ ~th[t].tuple[2])
            => LET p    == th[t].params
                   img  == th[t].image
                   size == th[t].tuple[1]
               IN  /\ p.scale = min(FDiv(IntToFloat(size), IntToFloat(img.width)),
                                    FDiv(IntToFloat(size), IntToFloat(img.height)))
                   /\ p.offset_x = 0 /\ p.offset_y = 0
                   /\ p.thumb_width = FToInt(FMulInt(p.scale, img.width))
                   /\ p.thumb_height = FToInt(FMulInt(p.scale, img.height))
                   /\ p.thumb_width <= size /\ p.thumb_height <= size
                   /\ (p.thumb_width >= size - 1 \/ p.thumb_height >= size - 1)

\* C14: with fill = true thumbnail_params yields thumb_width = thumb_height =
\* size, scale = max(size / width, size / height) and, on each axis, the
\* signed offset size / 2 - scaled / 2 (integer halves) of the scaled
\* dimension, negative exactly when the scaled dimension is above size.
C14_FillGeometry ==
    \A t \in Threads :
        (Done(t, "params") /\ th[t].tuple[2])
            => LET p     == th[t].params
                   img   == th[t].image
                   size  == th[t].tuple[1]
                   scale == max(FDiv(IntToFloat(size), IntToFloat(img.width)),
                                FDiv(IntToFloat(size), IntToFloat(img.height)))
                   scaled_width  == FToInt(FMulInt(scale, img.width))
                   scaled_height == FToInt(FMulInt(scale, img.height))
               IN  /\ p.thumb_width = size /\ p.thumb_height = size
                   /\ p.scale = scale
                   /\ p.offset_x = size \div 2 - scaled_width \div 2
                   /\ p.offset_y = size \div 2 - scaled_height \div 2
                   /\ p.offset_x < 0 <=> scaled_width > size
                   /\ p.offset_y < 0 <=> scaled_height > size

\* C15: every params record thumbnail_params produces for positive width,
\* height and size has thumb_width >= 1 and thumb_height >= 1, whatever
\* fill is.
C15_PositiveDims ==
    \A t \in Threads :
        Done(t, "params") => (th[t].params.thumb_width >= 1 /\ th[t].params.thumb_height >= 1)

\* C16: thumbnail_create resamples with nearest-neighbour when
\* params.antialias is false, otherwise with bicubic when params.scale > 1.0
\* and with averaging when params.scale <= 1.0; the destination it allocates
\* is thumb_width x thumb_height and the resampler gets the offsets and the
\* scale of params; when the allocation fails it returns false and has not
\* resampled.
C16_CreateSelects ==
    \A t \in Threads :
        Done(t, "create")
            => LET f == th[t]
                   p == th[t].params
               IN  IF f.ret = "true"
                   THEN /\ ~p.antialias => f.scaled.scaler = "pixmap_nearest"
                        /\ (p.antialias /\ FLess(FOne, p.scale))
                               => f.scaled.scaler = "pixmap_bicubic"
                        /\ (p.antialias /\ ~FLess(FOne, p.scale))
                               => f.scaled.scaler = "pixmap_average"
                        /\ f.thumb.width = p.thumb_width /\ f.thumb.height = p.thumb_height
                        /\ f.scaled.offset_x = p.offset_x /\ f.scaled.offset_y = p.offset_y
                        /\ f.scaled.scale = p.scale
                        /\ f.scaled.alpha = f.alpha
                   ELSE /\ f.ret = "false"
                        /\ f.scaled = NoScale
                        /\ f.nalloc = 0

\* C16, its case: an antialiased thumbnail of scale exactly 1.0 was created
\* with a negative offset
C16_AverageAtOne ==
    /\ Done(1, "create") /\ th[1].ret = "true"
    /\ th[1].params.antialias /\ th[1].params.scale = FOne
    /\ th[1].params.offset_x < 0
    /\ th[1].scaled.scaler = "pixmap_average"

\* C17: alpha is not persisted: after a save returned true, a load that
\* returns true returns, at every index, the red, green and blue of the saved
\* pixel, in this order, and alpha 255 whatever the saved alpha was.
C17_AlphaDropped ==
    \A t \in Threads :
        (Done(t, "load") /\ th[t].ret = "true" /\ th[t].source = "a" /\ hist.saved)
            => /\ DOMAIN th[t].thumb.data.px = DOMAIN hist.thumb.data.px
               /\ \A k \in DOMAIN th[t].thumb.data.px :
                      th[t].thumb.data.px[k] =
                          <<255, hist.thumb.data.px[k][2], hist.thumb.data.px[k][3],
                            hist.thumb.data.px[k][4]>>

\* C17, its case: a pixel saved with alpha 128 has come back with alpha 255
C17_TranslucentLoaded ==
    /\ Done(1, "load") /\ th[1].ret = "true" /\ hist.saved
    /\ hist.thumb.data.px = <<PxB, PxA>>
    /\ th[1].thumb.data.px = <<ARGB(255, 40, 50, 60), ARGB(255, 10, 20, 30)>>

\* C18: whenever a load returns true, the pixmap it returns has the width
\* and the height of the caller's params: thumb_width and thumb_height.
C18_DimsMatchParams ==
    \A t \in Threads :
        (Done(t, "load") /\ th[t].ret = "true")
            => /\ th[t].thumb.width = th[t].params.thumb_width
               /\ th[t].thumb.height = th[t].params.thumb_height

\* C19: resolving the cache root only reads the environment: after any
\* sequence of saves and loads XDG_CACHE_HOME and HOME have the values the
\* process started with.
C19_EnvUntouched ==
    env \in InitEnvs

\* the bindings reachable from a list
Linked(list) == {list[j] : j \in 1..Len(list)}

\* C20: after any sequence of set_binding calls (the defaults of
\* keybind_init, then the entries of the config), each list holds at most
\* one binding for a (key, mods) pair, no binding twice or in both lists,
\* and every binding that was removed has been freed exactly once and is
\* linked in no list, while no linked binding was freed.
C20_OneBindingPerKey ==
    /\ \A head \in {"kb_viewer", "kb_gallery"} :
           \A a, b \in 1..Len(kb[head]) :
               (/\ kb.heap[kb[head][a]].key = kb.heap[kb[head][b]].key
                /\ kb.heap[kb[head][a]].mods = kb.heap[kb[head][b]].mods) => a = b
    /\ Linked(kb.kb_viewer) \cap Linked(kb.kb_gallery) = {}
    /\ \A id \in 1..Len(kb.heap) :
           IF id \in Linked(kb.kb_viewer) \cup Linked(kb.kb_gallery)
           THEN kb.heap[id].frees = 0
           ELSE kb.heap[id].frees = 1

\* C20, its case: keybind_init is through, an entry of the config has
\* replaced the default Shift+d of the viewer and then was replaced itself
C20_ReplacedTwice ==
    /\ kb.pc = "done"
    /\ Cardinality({id \in 1..Len(kb.heap) :
                       /\ kb.heap[id].key = "d" /\ kb.heap[id].mods = KEYMOD_SHIFT
                       /\ kb.heap[id].frees = 1}) = 2
    /\ \E id \in Linked(kb.kb_viewer) :
           /\ kb.heap[id].key = "d" /\ kb.heap[id].mods = KEYMOD_SHIFT
           /\ kb.heap[id].actions = <<"action_exit">>

\* the actions the list of head binds to (key, mods): a set, empty when it
\* binds none
Bound(head, key, mods) ==
    {kb.heap[id].actions :
        id \in {n \in Linked(kb[head]) : kb.heap[n].key = key /\ kb.heap[n].mods = mods}}

\* the actions keybind_init is to leave for (key, mods) in the list of head:
\* those of the last valid entry of the section, else those of the default
ToBind(head, key, mods) ==
    LET named == {j \in 1..Len(kb.passed[head]) :
                     kb.passed[head][j].key = key /\ kb.passed[head][j].mods = mods}
        dflt  == {j \in 1..Len(Table(head)) :
                     Table(head)[j].key = key /\ Table(head)[j].mods = mods}
    IN  IF named # {}
        THEN {kb.passed[head][CHOOSE j \in named : \A i \in named : i <= j].actions}
        ELSE {IF Table(head)[j].action = "action_none"
              THEN <<"action_exec", "action_skip_file">>
              ELSE <<Table(head)[j].action>> : j \in dflt}

\* C21: after keybind_init, for every (key, mods) the list of a mode holds
\* the actions of the last valid entry of the mode's section for it, in
\* place of any default; a default the section does not name remains;
\* invalid entries and the entries of the other section change nothing.
C21_LastValidEntryWins ==
    kb.pc = "done"
        => \A head \in {"kb_viewer", "kb_gallery"} :
               \A key \in {"d", "q", "x", "Delete"}, mods \in SUBSET {"Ctrl", "Alt", "Shift"} :
                   Bound(head, key, mods) = ToBind(head, key, mods)

====
